---- MODULE Spec2Model ----
(***************************************************************************)
(* Split conformal calibration as carried out by the regression notebook   *)
(* (part1_regression_tuto.ipynb, section "Getting the results manually").  *)
(*                                                                         *)
(* Real numbers are modelled exactly: data values are small integers and   *)
(* the risk level alpha is the rational alpha / AlphaDen, so the quantile  *)
(* level (1 - alpha) * (n + 1) / n is the rational                         *)
(*        ((AlphaDen - alpha) * (n + 1)) / (AlphaDen * n).                 *)
(* Each notebook cell is one action; a cell that raises records the kind   *)
(* of the exception in status and leaves its targets unassigned.  The      *)
(* threshold cell of part2_classification_tuto.ipynb and evaluate_cp are   *)
(* run on the same predictor after the manual section.                     *)
(***************************************************************************)
EXTENDS Integers, Sequences, FiniteSets, TLC

\* ---------------------------------------------------------------- bounds
MaxLen == 3
MaxVal == 1
AlphaDen == 4

\* ---------------------------------------------------------------- inputs
PredVals == {0, 2}
TargetVals == 0..MaxVal
Alphas == (0 - 1)..(AlphaDen + 1)
TestBatches == {<<>>, <<1>>, <<0, 2>>, <<2, 0, 1>>}
TestTargets == {0, 3}

VARIABLES
    y_pred_calib,           \* predictions of the model on the calibration set
    y_calib,                \* true values of the calibration set
    alpha,                  \* risk level, numerator over alpha_den
    alpha_den,              \* denominator of the risk level
    y_pred_test,            \* predictions of the model on the test set
    lib_scores,             \* scores held by the split-conformal predictor
    y_pred_lower,           \* bounds returned by splitcp.predict
    y_pred_upper,
    nonconf_scores_manual,  \* notebook variables of the manual section
    nonconf_scores,
    n,
    q_level,                \* <<num, den>>: the level handed to np.quantile
    q,
    y_pred_lower_manual,
    y_pred_upper_manual,
    first_call,             \* outcome of the first run of the quantile cell
    calibrated_treshold,    \* threshold of the classification notebook
    y_test,                 \* true values of the test set
    sharpness,              \* <<sum, count>>: mean width returned by evaluate_cp
    coverage,               \* <<sum, count>>: mean coverage returned by evaluate_cp
    status,                 \* per cell: "pending", "ok" or the exception raised
    pc                      \* the next cell to run

vars == <<y_pred_calib, y_calib, alpha, alpha_den, y_pred_test, lib_scores,
          y_pred_lower, y_pred_upper, nonconf_scores_manual, nonconf_scores,
          n, q_level, q, y_pred_lower_manual, y_pred_upper_manual, first_call,
          calibrated_treshold, y_test, sharpness, coverage, status, pc>>

Cells == {"fit", "predict", "scores", "compare", "quantile", "interval",
          "threshold", "evaluate"}

\* ------------------------------------------------------- numeric helpers
Abs(x) == IF x >= 0 THEN x ELSE 0 - x

RECURSIVE Insert(_, _)
Insert(x, s) ==
    IF s = <<>> THEN <<x>>
    ELSE IF x <= Head(s) THEN <<x>> \o s
    ELSE <<Head(s)>> \o Insert(x, Tail(s))

RECURSIVE SortAsc(_)
SortAsc(s) == IF s = <<>> THEN <<>> ELSE Insert(Head(s), SortAsc(Tail(s)))

\* a sort that leaves the array as it was
SortNone(s) == s

\* ndarray.sort(): in-place ascending sort
Sort(s) == SortAsc(s)

\* the level with alpha in the place of 1 - alpha
LevelNumAlpha(a, k) == a * (k + 1)

\* the level expression (1 - alpha) * (n + 1) / n, as numerator and denominator
LevelNum(a, k) == (alpha_den - a) * (k + 1)
LevelDen(k) == alpha_den * k

\* np.quantile accepts only levels in [0, 1]
QuantileIsValid(num, den) == 0 <= num /\ num <= den

\* the index of the default (linear) method, truncated to the lower neighbour
LinearLowerIndex(len, num, den) == ((len - 1) * num) \div den

\* the observation above the virtual index, whether or not it is an integer
HigherIndex(len, num, den) ==
    IF (len * num) \div den >= len THEN len - 1 ELSE (len * num) \div den

\* np.quantile(a, num/den, method="inverted_cdf") on a non-empty array:
\* virtual index len*q - 1, rounded up to the next observation unless it is
\* an integer, negative indices clipped to 0; taken in the sorted array.
InvertedCdfIndex(len, num, den) ==
    LET index    == len * num - den          \* (len*q - 1) * den
        previous == index \div den
        gamma0   == (index % den) = 0
        res      == IF gamma0 THEN previous ELSE previous + 1
    IN  IF res < 0 THEN 0 ELSE res

\* the element at the index, taken in the array as it was handed in
QuantileNoSort(a, num, den) == a[InvertedCdfIndex(Len(a), num, den) + 1]

Quantile(a, num, den) == SortAsc(a)[InvertedCdfIndex(Len(a), num, den) + 1]

\* an input array that lost its largest element to the quantile computation
ScoresConsumed(a) == [i \in 1..(Len(a) - 1) |-> SortAsc(a)[i]]

\* np.quantile works on a copy (overwrite_input=False): the array handed in
\* is the same afterwards
ScoresAfterQuantile(a) == a

\* ---------------------------------------------------- library (puncc)
\* the signed deviation in the place of the absolute one
LibScoresSigned(preds, targets) == [i \in 1..Len(preds) |-> preds[i] - targets[i]]

\* nonconformity score of the split-conformal predictor: absolute deviation
LibScores(preds, targets) == [i \in 1..Len(preds) |-> Abs(preds[i] - targets[i])]

\* the library's error margin exists for a risk level in (0, 1) whose
\* corrected level stays within the empirical distribution
LibMarginDefined(scores, a) ==
    /\ Len(scores) >= 1
    /\ 0 < a /\ a < alpha_den
    /\ (alpha_den - a) * (Len(scores) + 1) <= alpha_den * Len(scores)

\* the error margin of the library: the ceil((1 - alpha)(n + 1))-th smallest score
LibRank(a, k) == ((alpha_den - a) * (k + 1) + alpha_den - 1) \div alpha_den

LibMargin(scores, a) == SortAsc(scores)[LibRank(a, Len(scores))]

\* the prediction interval of the library: [f(X) - delta, f(X) + delta]
LibLower(preds, delta) == [i \in 1..Len(preds) |-> preds[i] - delta]
LibUpper(preds, delta) == [i \in 1..Len(preds) |-> preds[i] + delta]

\* ---------------------------------------------------- metrics (puncc)
RECURSIVE SumSeq(_)
SumSeq(s) == IF s = <<>> THEN 0 ELSE Head(s) + SumSeq(Tail(s))

\* a true value strictly inside the interval
CoveredStrict(y, lower, upper) == lower < y /\ y < upper

\* a true value covered by the interval, bounds included
Covered(y, lower, upper) == lower <= y /\ y <= upper

\* regression_sharpness: the average width, as <<sum of widths, count>>
RegressionSharpness(lower, upper) ==
    <<SumSeq([i \in 1..Len(lower) |-> upper[i] - lower[i]]), Len(lower)>>

\* regression_mean_coverage: the average coverage, as <<covered, count>>
RegressionMeanCoverage(y_true, lower, upper) ==
    <<Cardinality({i \in 1..Len(y_true) : Covered(y_true[i], lower[i], upper[i])}),
      Len(y_true)>>

\* ---------------------------------------------------- manual section
\* targets no shorter than the predictions (pairs taken while both last)
ScoresInputPrefix(preds, targets) == Len(preds) <= Len(targets)

\* the two sequences pair up index by index
ScoresInputValid(preds, targets) == Len(preds) = Len(targets)

ManualScores(preds, targets) ==
    [i \in 1..Len(preds) |-> Abs(preds[i] - targets[i])]

IntervalLower(preds, margin) == [i \in 1..Len(preds) |-> preds[i] - margin]
IntervalUpper(preds, margin) == [i \in 1..Len(preds) |-> preds[i] + margin]

\* ------------------------------------------------------------------ Init
\* everything the cells assign is unassigned before the first cell runs
Unassigned ==
    /\ lib_scores = <<>>
    /\ y_pred_lower = <<>>
    /\ y_pred_upper = <<>>
    /\ nonconf_scores_manual = <<>>
    /\ nonconf_scores = <<>>
    /\ n = 0
    /\ q_level = <<0, 1>>
    /\ q = 0
    /\ y_pred_lower_manual = <<>>
    /\ y_pred_upper_manual = <<>>
    /\ first_call = [status |-> "pending", q |-> 0]
    /\ calibrated_treshold = 0
    /\ y_test = <<>>
    /\ sharpness = <<0, 0>>
    /\ coverage = <<0, 0>>
    /\ status = [c \in Cells |-> "pending"]
    /\ pc = "fit"

Init ==
    /\ \E m \in 0..MaxLen :
         /\ y_pred_calib \in [1..m -> PredVals]
         /\ y_calib \in [1..m -> TargetVals]
    /\ alpha \in Alphas
    /\ alpha_den = AlphaDen
    /\ y_pred_test \in TestBatches
    /\ Unassigned

\* calibration data whose predictions and targets differ in length
InitMismatch ==
    /\ \E m1, m2 \in 0..MaxLen :
         /\ m1 # m2
         /\ y_pred_calib \in [1..m1 -> PredVals]
         /\ y_calib \in [1..m2 -> TargetVals]
    /\ alpha \in Alphas
    /\ alpha_den = AlphaDen
    /\ y_pred_test \in TestBatches
    /\ Unassigned

\* the two worked examples: ten examples with deviations 1..10 (in any
\* rotation, over- or under-predicted) at alpha = 1/10, and predictions
\* [5, 5] against targets [4, 6] at alpha = 5/10 with one new prediction 5
InitExamples ==
    /\ \/ /\ \E r \in 0..9, over \in BOOLEAN :
               /\ y_pred_calib = [i \in 1..10 |->
                                    IF over THEN ((i + r) % 10) + 1 ELSE 0]
               /\ y_calib = [i \in 1..10 |->
                               IF over THEN 0 ELSE ((i + r) % 10) + 1]
          /\ alpha = 1
          /\ y_pred_test \in TestBatches
       \/ /\ y_pred_calib = <<5, 5>>
          /\ y_calib = <<4, 6>>
          /\ alpha = 5
          /\ y_pred_test = <<5>>
    /\ alpha_den = 10
    /\ Unassigned

\* --------------------------------------------------------------- actions
\* splitcp.fit: the scores of the calibration set are computed and kept
Fit ==
    /\ pc = "fit"
    /\ IF Len(y_pred_calib) = Len(y_calib)
       THEN /\ lib_scores' = LibScores(y_pred_calib, y_calib)
            /\ status' = [status EXCEPT !["fit"] = "ok"]
       ELSE /\ lib_scores' = lib_scores
            /\ status' = [status EXCEPT !["fit"] = "ValueError"]
    /\ pc' = "predict"
    /\ UNCHANGED <<y_pred_calib, y_calib, alpha, alpha_den, y_pred_test,
                   y_pred_lower, y_pred_upper, nonconf_scores_manual,
                   nonconf_scores, n, q_level, q, y_pred_lower_manual,
                   y_pred_upper_manual, first_call, calibrated_treshold,
                   y_test, sharpness, coverage>>

\* y_pred, y_pred_lower, y_pred_upper = splitcp.predict(X_test, alpha=alpha)
Predict ==
    /\ pc = "predict"
    /\ IF status["fit"] # "ok"
       THEN /\ UNCHANGED <<y_pred_lower, y_pred_upper>>
            /\ status' = [status EXCEPT !["predict"] = "RuntimeError"]
       ELSE IF LibMarginDefined(lib_scores, alpha)
       THEN /\ y_pred_lower' = LibLower(y_pred_test, LibMargin(lib_scores, alpha))
            /\ y_pred_upper' = LibUpper(y_pred_test, LibMargin(lib_scores, alpha))
            /\ status' = [status EXCEPT !["predict"] = "ok"]
       ELSE /\ UNCHANGED <<y_pred_lower, y_pred_upper>>
            /\ status' = [status EXCEPT !["predict"] = "ValueError"]
    /\ pc' = "scores"
    /\ UNCHANGED <<y_pred_calib, y_calib, alpha, alpha_den, y_pred_test,
                   lib_scores, nonconf_scores_manual, nonconf_scores, n,
                   q_level, q, y_pred_lower_manual, y_pred_upper_manual,
                   first_call, calibrated_treshold, y_test, sharpness,
                   coverage>>

\* nonconf_scores_manual = |predictions - targets|; nonconf_scores_manual.sort()
ScoresCell ==
    /\ pc = "scores"
    /\ IF ScoresInputValid(y_pred_calib, y_calib)
       THEN /\ nonconf_scores_manual' = Sort(ManualScores(y_pred_calib, y_calib))
            /\ status' = [status EXCEPT !["scores"] = "ok"]
       ELSE /\ nonconf_scores_manual' = nonconf_scores_manual
            /\ status' = [status EXCEPT !["scores"] = "ValueError"]
    /\ pc' = "compare"
    /\ UNCHANGED <<y_pred_calib, y_calib, alpha, alpha_den, y_pred_test,
                   lib_scores, y_pred_lower, y_pred_upper, nonconf_scores, n,
                   q_level, q, y_pred_lower_manual, y_pred_upper_manual,
                   first_call, calibrated_treshold, y_test, sharpness,
                   coverage>>

\* nonconf_scores = splitcp.get_nonconformity_scores(); nonconf_scores.sort();
\* assert np.all(nonconf_scores == nonconf_scores_manual)
CompareCell ==
    /\ pc = "compare"
    /\ IF status["fit"] # "ok"
       THEN /\ nonconf_scores' = nonconf_scores
            /\ status' = [status EXCEPT !["compare"] = "RuntimeError"]
       ELSE /\ nonconf_scores' = Sort(lib_scores)
            /\ status' = [status EXCEPT !["compare"] =
                 IF status["scores"] # "ok" THEN "NameError"
                 ELSE IF nonconf_scores' = nonconf_scores_manual
                      THEN "ok" ELSE "AssertionError"]
    /\ pc' = "quantile"
    /\ UNCHANGED <<y_pred_calib, y_calib, alpha, alpha_den, y_pred_test,
                   lib_scores, y_pred_lower, y_pred_upper,
                   nonconf_scores_manual, n, q_level, q, y_pred_lower_manual,
                   y_pred_upper_manual, first_call, calibrated_treshold,
                   y_test, sharpness, coverage>>

\* n = len(nonconf_scores)
\* q = np.quantile(nonconf_scores, (1 - alpha) * (n + 1) / n, method="inverted_cdf")
RunQuantile ==
    IF status["compare"] = "RuntimeError"
    THEN /\ status' = [status EXCEPT !["quantile"] = "NameError"]
         /\ UNCHANGED <<n, q_level, q, nonconf_scores>>
    ELSE
    /\ n' = Len(nonconf_scores)
    /\ IF n' = 0
       THEN /\ status' = [status EXCEPT !["quantile"] = "ZeroDivisionError"]
            /\ UNCHANGED <<q_level, q, nonconf_scores>>
       ELSE /\ q_level' = <<LevelNum(alpha, n'), LevelDen(n')>>
            /\ IF QuantileIsValid(q_level'[1], q_level'[2])
               THEN /\ q' = Quantile(nonconf_scores, q_level'[1], q_level'[2])
                    /\ nonconf_scores' = ScoresAfterQuantile(nonconf_scores)
                    /\ status' = [status EXCEPT !["quantile"] = "ok"]
               ELSE /\ UNCHANGED <<q, nonconf_scores>>
                    /\ status' = [status EXCEPT !["quantile"] = "ValueError"]

QuantileCell ==
    /\ pc = "quantile"
    /\ RunQuantile
    /\ pc' = "interval"
    /\ UNCHANGED <<y_pred_calib, y_calib, alpha, alpha_den, y_pred_test,
                   lib_scores, y_pred_lower, y_pred_upper,
                   nonconf_scores_manual, y_pred_lower_manual,
                   y_pred_upper_manual, first_call, calibrated_treshold,
                   y_test, sharpness, coverage>>

\* y_pred = splitcp.predictor.predict(X_test)
\* y_pred_lower_manual = y_pred - q; y_pred_upper_manual = y_pred + q
\* assert np.all(y_pred_lower_manual == y_pred_lower)
\* assert np.all(y_pred_upper_manual == y_pred_upper)
IntervalCell ==
    /\ pc = "interval"
    /\ IF status["quantile"] # "ok"
       THEN /\ status' = [status EXCEPT !["interval"] = "NameError"]
            /\ UNCHANGED <<y_pred_lower_manual, y_pred_upper_manual>>
       ELSE /\ y_pred_lower_manual' = IntervalLower(y_pred_test, q)
            /\ y_pred_upper_manual' = IntervalUpper(y_pred_test, q)
            /\ status' = [status EXCEPT !["interval"] =
                 IF status["predict"] # "ok" THEN "NameError"
                 ELSE IF /\ y_pred_lower_manual' = y_pred_lower
                         /\ y_pred_upper_manual' = y_pred_upper
                      THEN "ok" ELSE "AssertionError"]
    /\ pc' = "done"
    /\ UNCHANGED <<y_pred_calib, y_calib, alpha, alpha_den, y_pred_test,
                   lib_scores, y_pred_lower, y_pred_upper,
                   nonconf_scores_manual, nonconf_scores, n, q_level, q,
                   first_call, calibrated_treshold, y_test, sharpness,
                   coverage>>

\* the quantile cell run a second time, after the intervals were built
Recalibrate ==
    /\ pc = "done"
    /\ first_call' = [status |-> status["quantile"], q |-> q]
    /\ RunQuantile
    /\ pc' = "threshold"
    /\ UNCHANGED <<y_pred_calib, y_calib, alpha, alpha_den, y_pred_test,
                   lib_scores, y_pred_lower, y_pred_upper,
                   nonconf_scores_manual, y_pred_lower_manual,
                   y_pred_upper_manual, calibrated_treshold, y_test,
                   sharpness, coverage>>

\* part 2: nonconf_scores = ...get_nonconformity_scores()[0]; n = len(nonconf_scores)
\* calibrated_treshold = np.quantile(nonconf_scores, (1 - alpha) * (n + 1) / n,
\*                                   method="inverted_cdf")
\* the scores are those held by the predictor, in calibration order
ThresholdCell ==
    /\ pc = "threshold"
    /\ IF status["fit"] # "ok"
       THEN /\ status' = [status EXCEPT !["threshold"] = "RuntimeError"]
            /\ UNCHANGED calibrated_treshold
       ELSE IF Len(lib_scores) = 0
       THEN /\ status' = [status EXCEPT !["threshold"] = "ZeroDivisionError"]
            /\ UNCHANGED calibrated_treshold
       ELSE IF QuantileIsValid(LevelNum(alpha, Len(lib_scores)),
                               LevelDen(Len(lib_scores)))
       THEN /\ calibrated_treshold' =
                 Quantile(lib_scores, LevelNum(alpha, Len(lib_scores)),
                          LevelDen(Len(lib_scores)))
            /\ status' = [status EXCEPT !["threshold"] = "ok"]
       ELSE /\ status' = [status EXCEPT !["threshold"] = "ValueError"]
            /\ UNCHANGED calibrated_treshold
    /\ pc' = "evaluate"
    /\ UNCHANGED <<y_pred_calib, y_calib, alpha, alpha_den, y_pred_test,
                   lib_scores, y_pred_lower, y_pred_upper,
                   nonconf_scores_manual, nonconf_scores, n, q_level, q,
                   y_pred_lower_manual, y_pred_upper_manual, first_call,
                   y_test, sharpness, coverage>>

\* sharpness, coverage = evaluate_cp(X_test, y_test, splitcp, alpha)
EvaluateCp ==
    /\ pc = "evaluate"
    /\ IF status["fit"] = "ok" /\ LibMarginDefined(lib_scores, alpha)
       THEN \E yt \in [1..Len(y_pred_test) -> TestTargets] :
              LET lower == LibLower(y_pred_test, LibMargin(lib_scores, alpha))
                  upper == LibUpper(y_pred_test, LibMargin(lib_scores, alpha))
              IN  /\ y_test' = yt
                  /\ sharpness' = RegressionSharpness(lower, upper)
                  /\ coverage' = RegressionMeanCoverage(yt, lower, upper)
                  /\ status' = [status EXCEPT !["evaluate"] = "ok"]
       ELSE /\ UNCHANGED <<y_test, sharpness, coverage>>
            /\ status' = [status EXCEPT !["evaluate"] =
                 IF status["fit"] # "ok" THEN "RuntimeError" ELSE "ValueError"]
    /\ pc' = "end"
    /\ UNCHANGED <<y_pred_calib, y_calib, alpha, alpha_den, y_pred_test,
                   lib_scores, y_pred_lower, y_pred_upper,
                   nonconf_scores_manual, nonconf_scores, n, q_level, q,
                   y_pred_lower_manual, y_pred_upper_manual, first_call,
                   calibrated_treshold>>

Next ==
    \/ Fit
    \/ Predict
    \/ ScoresCell
    \/ CompareCell
    \/ QuantileCell
    \/ IntervalCell
    \/ Recalibrate
    \/ ThresholdCell
    \/ EvaluateCp

Spec == Init /\ [][Next]_vars

\* the same cells on calibration data of unequal lengths
SpecMismatch == InitMismatch /\ [][Next]_vars

\* the same cells on the two worked examples
SpecExamples == InitExamples /\ [][Next]_vars

\* ================================================================ claims
InvalidInput == "ValueError"   \* Python's exception for an invalid argument

CalibrateRan == status["quantile"] # "pending"
CalibrateReturned == status["quantile"] = "ok"
AlphaInRange == 0 < alpha /\ alpha < alpha_den

\* number of scores <= v
CountLeq(s, v) == Cardinality({i \in 1..Len(s) : s[i] <= v})
\* (number of scores <= v) / Len(s) >= num / den, for Len(s) > 0 and den > 0
CoversLevel(s, v, num, den) == CountLeq(s, v) * den >= num * Len(s)

\* C1: whenever calibrate returns a margin, the margin is the smallest value
\* occurring in the scores whose empirical CDF reaches the quantile level; it
\* is one of the scores, never a value between two of them.
C1_InvertedCdfQuantile ==
    CalibrateReturned =>
        /\ \E i \in 1..n : nonconf_scores[i] = q
        /\ CoversLevel(nonconf_scores, q, q_level[1], q_level[2])
        /\ \A i \in 1..n :
             nonconf_scores[i] < q =>
               ~CoversLevel(nonconf_scores, nonconf_scores[i], q_level[1], q_level[2])

\* a margin strictly inside the range of three scores, at a risk level in (0,1)
C1_Witness ==
    /\ CalibrateReturned /\ AlphaInRange /\ n = 3
    /\ nonconf_scores[1] < q /\ q < nonconf_scores[3]

\* C2: for n >= 1 and alpha in (0,1), the level handed to the quantile
\* computation is min(1, (1 - alpha)(n + 1)/n), so it never exceeds 1.
C2_LevelClipped ==
    (CalibrateRan /\ n >= 1 /\ AlphaInRange) =>
        /\ q_level[1] <= q_level[2]
        /\ q_level[1] * LevelDen(n) =
             q_level[2] * (IF (alpha_den - alpha) * (n + 1) <= alpha_den * n
                           THEN (alpha_den - alpha) * (n + 1) ELSE alpha_den * n)

\* the absolute deviation of calibration example i, written out by cases
Deviation(i) ==
    IF y_pred_calib[i] >= y_calib[i]
    THEN y_pred_calib[i] - y_calib[i] ELSE y_calib[i] - y_pred_calib[i]

IsAscending(s) == \A i \in 1..(Len(s) - 1) : s[i] <= s[i + 1]

\* C3: there is one score per calibration example, score i is
\* |predictions[i] - targets[i]|, and the sorted manual scores equal, element
\* by element, the sorted scores of the split-conformal predictor.
C3_ScoresAreAbsoluteDeviations ==
    status["compare"] # "pending" =>
        /\ Len(lib_scores) = Len(y_pred_calib)
        /\ \A i \in 1..Len(y_pred_calib) : lib_scores[i] = Deviation(i)
        /\ Len(nonconf_scores_manual) = Len(y_pred_calib)
        /\ IsAscending(nonconf_scores_manual)
        /\ \A v \in 0..(MaxVal + 1) :
             Cardinality({i \in 1..Len(nonconf_scores_manual) :
                            nonconf_scores_manual[i] = v})
               = Cardinality({i \in 1..Len(y_pred_calib) : Deviation(i) = v})
        /\ Len(nonconf_scores) = Len(nonconf_scores_manual)
        /\ \A i \in 1..Len(nonconf_scores) :
             nonconf_scores[i] = nonconf_scores_manual[i]
        /\ status["compare"] = "ok"

\* three examples, over- and under-predicted, whose scores are not yet in order
C3_Witness ==
    /\ status["compare"] = "ok" /\ Len(lib_scores) = 3
    /\ ~IsAscending(lib_scores)
    /\ \E i, j \in 1..3 : /\ y_pred_calib[i] > y_calib[i]
                          /\ y_pred_calib[j] < y_calib[j]

ManualIntervalsBuilt == status["interval"] # "pending" /\ CalibrateReturned

\* C4: the manual bounds are prediction - margin and prediction + margin,
\* element-wise and in the order of the batch, and they equal the bounds
\* returned by the split-conformal predictor's predict at the same alpha.
C4_SymmetricInterval ==
    ManualIntervalsBuilt =>
        /\ Len(y_pred_lower_manual) = Len(y_pred_test)
        /\ Len(y_pred_upper_manual) = Len(y_pred_test)
        /\ \A i \in 1..Len(y_pred_test) :
             /\ y_pred_lower_manual[i] = y_pred_test[i] - q
             /\ y_pred_upper_manual[i] = y_pred_test[i] + q
        /\ status["predict"] = "ok" =>
             /\ status["interval"] = "ok"
             /\ Len(y_pred_lower) = Len(y_pred_test)
             /\ Len(y_pred_upper) = Len(y_pred_test)
             /\ \A i \in 1..Len(y_pred_test) :
                  /\ y_pred_lower_manual[i] = y_pred_lower[i]
                  /\ y_pred_upper_manual[i] = y_pred_upper[i]

\* a batch of three predictions, a positive margin below the largest score
C4_Witness ==
    /\ ManualIntervalsBuilt /\ status["interval"] = "ok"
    /\ Len(y_pred_test) = 3 /\ q > 0 /\ n = 3 /\ q < nonconf_scores[3]

\* C6: a margin returned by calibrate is never negative.
C6_MarginNonNegative == CalibrateReturned => q >= 0

\* the margin is the absolute value of a negative signed deviation
C6_Witness ==
    /\ CalibrateReturned /\ AlphaInRange /\ q > 0
    /\ \E i \in 1..Len(y_pred_calib) : y_pred_calib[i] - y_calib[i] = 0 - q

\* the margin calibrate computes on the scores at hand for risk level a
MarginAt(a) == Quantile(nonconf_scores, LevelNum(a, n), LevelDen(n))
ReturnsAt(a) == n >= 1 /\ QuantileIsValid(LevelNum(a, n), LevelDen(n))

\* C7: on fixed scores, a larger risk level never gives a larger margin:
\* the margin returned at alpha bounds from above the margin of every
\* alpha2 >= alpha, and from below the margin of every alpha1 <= alpha.
C7_MarginMonotoneInAlpha ==
    CalibrateReturned =>
        \A a \in Alphas :
            ReturnsAt(a) =>
                /\ a >= alpha => MarginAt(a) <= q
                /\ a <= alpha => MarginAt(a) >= q

\* a larger risk level in (0,1) that gives a strictly smaller margin
C7_Witness ==
    /\ CalibrateReturned /\ AlphaInRange
    /\ \E a \in Alphas : /\ a > alpha /\ a < alpha_den /\ ReturnsAt(a)
                         /\ MarginAt(a) < q

\* C8: build_interval with the calibrated margin gives one (lower, upper) pair
\* per point prediction, and lower <= upper in each pair.
C8_IntervalsWellFormed ==
    ManualIntervalsBuilt =>
        /\ Len(y_pred_lower_manual) = Len(y_pred_test)
        /\ Len(y_pred_upper_manual) = Len(y_pred_test)
        /\ \A i \in 1..Len(y_pred_test) :
             y_pred_lower_manual[i] <= y_pred_upper_manual[i]

\* a batch of two with strictly wider-than-zero intervals
C8_Witness ==
    /\ ManualIntervalsBuilt /\ Len(y_pred_test) = 2
    /\ \A i \in 1..2 : y_pred_lower_manual[i] < y_pred_upper_manual[i]

\* C9: on an empty calibration set calibrate fails with InvalidInput and
\* with no other kind of error.
C9_EmptyFailsInvalidInput ==
    (CalibrateRan /\ Len(nonconf_scores) = 0) => status["quantile"] = InvalidInput

\* C10: for every alpha outside (0,1), the bounds 0 and 1 included, calibrate
\* on a non-empty calibration set fails with InvalidInput and returns no margin.
C10_AlphaOutsideFails ==
    (CalibrateRan /\ Len(nonconf_scores) >= 1 /\ ~AlphaInRange) =>
        status["quantile"] = InvalidInput

ScoresAssigned == status["compare"] \notin {"pending", "RuntimeError"}

Occurrences(s, v) == Cardinality({i \in 1..Len(s) : s[i] = v})
\* the same values, each as many times
SameValues(s, t) ==
    /\ Len(s) = Len(t)
    /\ \A i \in 1..Len(s) : Occurrences(s, s[i]) = Occurrences(t, s[i])

\* C12 as stated: the score sequences hold the values they were created
\* with, in the order they were created in.
C12_ScoresNeverMutated ==
    /\ status["scores"] = "ok" =>
         \A i \in 1..Len(y_pred_calib) : nonconf_scores_manual[i] = Deviation(i)
    /\ ScoresAssigned => nonconf_scores = lib_scores

\* C12, amended: no cell changes the predictions or the targets, and the
\* quantile computation leaves the score sequence it is handed as it was; the
\* score sequences themselves are put in ascending order, in place, by the
\* cells that create them, and keep their values.
C12_InputsKeptScoresSorted ==
    /\ [](/\ ScoresAssigned =>
               IsAscending(nonconf_scores) /\ SameValues(nonconf_scores, lib_scores)
          /\ status["scores"] = "ok" =>
               /\ IsAscending(nonconf_scores_manual)
               /\ SameValues(nonconf_scores_manual, lib_scores))
    /\ [][/\ y_pred_calib' = y_pred_calib
          /\ y_calib' = y_calib
          /\ pc \in {"quantile", "done"} => nonconf_scores' = nonconf_scores]_vars

\* a margin was computed from three scores that were created out of order
C12_Witness ==
    /\ CalibrateReturned /\ n = 3 /\ ~IsAscending(lib_scores)
    /\ nonconf_scores # lib_scores

SecondCallDone == pc \in {"threshold", "evaluate", "end"}

\* C13: the quantile cell run again on the same inputs, after the intervals
\* were built, ends as the first run did and returns the same margin.
C13_RerunSameMargin ==
    SecondCallDone =>
        /\ status["quantile"] = first_call.status
        /\ first_call.status = "ok" => q = first_call.q

\* two returning runs with build_interval in between, on three scores
C13_Witness ==
    /\ SecondCallDone /\ first_call.status = "ok" /\ status["interval"] = "ok"
    /\ n = 3 /\ q > 0 /\ Len(y_pred_test) = 2

\* C14: for the scores 1..10 and alpha = 0.1 the level is 0.99 and the
\* margin is 10, the largest score.
C14_ExampleTenScores ==
    (Len(y_pred_calib) = 10 /\ CalibrateRan) =>
        /\ nonconf_scores = <<1, 2, 3, 4, 5, 6, 7, 8, 9, 10>>
        /\ 10 * alpha = alpha_den
        /\ n = 10
        /\ 100 * q_level[1] = 99 * q_level[2]
        /\ CalibrateReturned
        /\ q = 10

\* the ten scores were created in another order than 1..10
C14_Witness ==
    /\ Len(y_pred_calib) = 10 /\ CalibrateReturned /\ q = 10
    /\ lib_scores[1] = 4 /\ y_pred_calib[1] = 4

\* C15: predictions [5, 5], targets [4, 6], alpha = 0.5: scores [1, 1],
\* level 0.75, margin 1, and the interval of a new prediction 5 is (4, 6).
C15_ExampleTwoScores ==
    (y_pred_calib = <<5, 5>> /\ status["interval"] # "pending") =>
        /\ y_calib = <<4, 6>> /\ 2 * alpha = alpha_den
        /\ nonconf_scores = <<1, 1>>
        /\ 4 * q_level[1] = 3 * q_level[2]
        /\ CalibrateReturned
        /\ q = 1
        /\ y_pred_test = <<5>>
        /\ y_pred_lower_manual = <<4>>
        /\ y_pred_upper_manual = <<6>>

C15_Witness ==
    /\ y_pred_calib = <<5, 5>> /\ status["interval"] = "ok"
    /\ y_pred_upper_manual = <<6>>

\* C16: evaluate_cp returns the mean width of the intervals predicted at
\* alpha (each of width twice the margin) and the fraction of test examples
\* whose true value lies in [lower, upper], bounds included; the coverage is
\* between 0 and 1 and the sharpness is not negative.
C16_EvaluateCp ==
    status["evaluate"] = "ok" =>
        /\ sharpness[2] = Len(y_pred_test)
        /\ sharpness[1] = 2 * LibMargin(lib_scores, alpha) * Len(y_pred_test)
        /\ sharpness[1] >= 0
        /\ coverage[2] = Len(y_pred_test)
        /\ coverage[1] =
             Cardinality({i \in 1..Len(y_pred_test) :
                            /\ y_pred_lower[i] <= y_test[i]
                            /\ y_test[i] <= y_pred_upper[i]})
        /\ 0 <= coverage[1] /\ coverage[1] <= coverage[2]

\* three test examples, some covered and some not, one exactly on a bound
C16_Witness ==
    /\ status["evaluate"] = "ok" /\ Len(y_pred_test) = 3
    /\ 0 < coverage[1] /\ coverage[1] < 3 /\ sharpness[1] > 0
    /\ \E i \in 1..3 : y_test[i] = y_pred_upper[i]

\* the largest score
MaxScore(s) == CHOOSE v \in {s[i] : i \in 1..Len(s)} :
                   \A i \in 1..Len(s) : s[i] <= v

\* C17: on a non-empty calibration set and alpha in (0,1) calibrate returns
\* a margin; when (1 - alpha)(n + 1) > n the margin is the largest score.
C17_TotalOnValidInput ==
    (CalibrateRan /\ Len(nonconf_scores) >= 1 /\ AlphaInRange) =>
        /\ CalibrateReturned
        /\ (alpha_den - alpha) * (n + 1) > alpha_den * n =>
             q = MaxScore(nonconf_scores)

\* calibration examples whose target lies within margin of the prediction
CalibCovered ==
    Cardinality({i \in 1..Len(y_pred_calib) :
                   /\ y_pred_calib[i] - q <= y_calib[i]
                   /\ y_calib[i] <= y_pred_calib[i] + q})

\* ceil((1 - alpha)(n + 1))
CorrectedRank == ((alpha_den - alpha) * (n + 1) + alpha_den - 1) \div alpha_den

\* C18: the returned margin covers at least min(n, ceil((1 - alpha)(n + 1)))
\* of the n calibration examples, hence a fraction of at least 1 - alpha.
C18_CalibrationCovered ==
    (CalibrateReturned /\ AlphaInRange) =>
        /\ CalibCovered >= (IF CorrectedRank <= n THEN CorrectedRank ELSE n)
        /\ CalibCovered * alpha_den >= (alpha_den - alpha) * n

\* three calibration examples, not all of them covered
C18_Witness ==
    /\ CalibrateReturned /\ AlphaInRange /\ n = 3
    /\ CalibCovered < 3 /\ CalibCovered >= 2

Orderings(k) == {f \in [1..k -> 1..k] : \A i, j \in 1..k : f[i] = f[j] => i = j}

\* C19: the margin is the same for every order of the scores: the threshold
\* computed from the scores in calibration order equals the margin computed
\* from the sorted scores, and so does the quantile of every reordering
\* (enumerated in the state the threshold cell leaves).
C19_OrderIndependent ==
    (CalibrateReturned /\ status["threshold"] # "pending") =>
        /\ status["threshold"] = "ok"
        /\ calibrated_treshold = q
        /\ pc = "evaluate" =>
             \A f \in Orderings(n) :
               Quantile([i \in 1..n |-> nonconf_scores[f[i]]],
                        q_level[1], q_level[2]) = q

\* scores created out of order, margin below the largest of them
C19_Witness ==
    /\ pc = "evaluate" /\ CalibrateReturned /\ status["threshold"] = "ok" /\ n = 3
    /\ ~IsAscending(lib_scores) /\ q < nonconf_scores[3] /\ AlphaInRange

====
